---- MODULE Spec2Model ----
(***************************************************************************)
(* Triangle performance-evaluation app (src/main.py): the five objective   *)
(* item generators, the Generate / Auto-grade / rubric-save / roster-upload*)
(* handlers and the mastery aggregation, as a state machine over the       *)
(* session state.                                                          *)
(*                                                                         *)
(* Python strings are sequences of tokens: a number is written digit by    *)
(* digit (str(15) = <<"1","5">>), a fixed label is one token.  The Korean  *)
(* labels of the source are written in ASCII:                              *)
(*   equilateral / isosceles / right / scalene / acute / obtuse triangle   *)
(*   "undecidable", "possible(AA)", "impossible", ...                      *)
(*   roster columns: "hakbun" (student number), "ireum" (name).            *)
(***************************************************************************)
EXTENDS Integers, Sequences, FiniteSets, TLC

VARIABLES
    gpc,            \* position inside the generator call being executed
    glocals,        \* local variables of that call (the sampled parameters, and
                    \* whether the loop body has run)
    gitem,          \* the ObjItem the call returned
    quiz_items,     \* st.session_state.quiz_items
    widgets,        \* st.session_state["resp_<item id>"], keyed by item id
    responses,      \* st.session_state.responses, an insertion-ordered dict
    rubric_scores,  \* st.session_state.rubric_scores, an insertion-ordered dict
    students,       \* st.session_state.students (the roster table)
    report,         \* what the last Auto-grade displayed: student, total, max_total
    err,            \* the exception that ended the last handler, "" when none
    last,           \* the handler that ran last, with its inputs
    steps           \* number of handler runs so far

vars == <<gpc, glocals, gitem, quiz_items, widgets, responses, rubric_scores,
          students, report, err, last, steps>>

genVars == <<gpc, glocals, gitem>>
sessionVars == <<quiz_items, widgets, responses, rubric_scores, students,
                 report, err, last, steps>>

-----------------------------------------------------------------------------
(* Bounds of the model *)

\* randint(1000, 9999) is explored for the first IdSpan values
IdSpan == 1
\* largest item count the Generate slider is moved to (its minimum is MinItems)
MaxItems == 5
\* number of selected topics the session explores per Generate
MaxTopics == 1
\* handler runs per session
MaxSteps == 4
\* columns of an uploaded roster file
MaxCols == 2
\* roster rows the teacher picks as grading / rubric target
MaxStudents == 1
\* values of each random range the session draws from
DrawWidth == 1

(* Program constants *)
MinItems == 5
IdLo == 1000
ItemPoints == 2
TaskPoints == 8

-----------------------------------------------------------------------------
(* Python values and strings *)

DigitChars == <<"0", "1", "2", "3", "4", "5", "6", "7", "8", "9">>

RECURSIVE Digits(_)
Digits(n) ==
    IF n < 10 THEN <<DigitChars[n + 1]>>
    ELSE Append(Digits(n \div 10), DigitChars[(n % 10) + 1])

\* str(n) for an int n
Str(n) == IF n < 0 THEN <<"-">> \o Digits(-n) ELSE Digits(n)

None == [kind |-> "None"]
StrV(s) == [kind |-> "str", s |-> s]
IntV(n) == [kind |-> "int", n |-> n]

\* str(v) for a value of type Any
PyStr(v) ==
    CASE v.kind = "None" -> <<"None">>
      [] v.kind = "int" -> Str(v.n)
      [] OTHER -> v.s

\* range(lo, hi, step)
Range(lo, hi, step) == {lo + step * k : k \in 0 .. ((hi - lo - 1) \div step)}

Perms(n) == {p \in [1 .. n -> 1 .. n] : \A i, j \in 1 .. n : p[i] = p[j] => i = j}
Perms4 == Perms(4)
Perms5 == Perms(5)

\* a result of random.shuffle(choices): the order p of the old positions
Shuffle(choices, p) == [i \in 1 .. Len(choices) |-> choices[p[i]]]

SeqToSet(s) == {s[i] : i \in 1 .. Len(s)}

Min(a, b) == IF a < b THEN a ELSE b

\* the k smallest values of a set of integers
Smallest(S, k) == {x \in S : Cardinality({y \in S : y < x}) < k}

\* the first / last k entries of a list
FirstK(s, k) == {s[i] : i \in 1 .. Min(k, Len(s))}
LastK(s, k) == {s[i] : i \in (Len(s) - Min(k, Len(s)) + 1) .. Len(s)}

\* the first k rotations among the orders random.shuffle can produce
Rotations(n, k) ==
    {[i \in 1 .. n |-> ((i - 1 + r) % n) + 1] : r \in 0 .. (Min(k, n) - 1)}

-----------------------------------------------------------------------------
(* Item generation: the ObjItem each generator builds from its draws *)

ObjItem(id, topic, stem, choices, answer) ==
    [id |-> id, topic |-> topic, stem |-> stem, choices |-> choices,
     answer |-> StrV(answer), kind |-> "MCQ", points |-> ItemPoints]

\* random.randint(1000, 9999), over the ids the model explores
ItemNumbers == IdLo .. (IdLo + IdSpan - 1)

\* --- gen_angle_sum_item
ASAngles == Range(20, 121, 5)

\* variants of the loop condition: one degree too lenient; a dropped digit
ASRejectAbove(a, b) == a + b > 170
ASRejectTypo(a, b) == a + b >= 17

\* the loop condition "while a + b >= 170"
ASReject(a, b) == a + b >= 170

AngleSumItem(a, b, p) ==
    LET c == 180 - (a + b)
    IN ObjItem(<<"AS-">> \o Str(a) \o <<"-">> \o Str(b),
               "triangle_angle_sum",
               <<"two interior angles are ">> \o Str(a) \o <<"deg, ">> \o Str(b)
                   \o <<"deg; the remaining angle?">>,
               Shuffle(<<Str(c), Str(c + 5), Str(c - 5), Str(c + 10)>>, p),
               Str(c))

\* --- gen_exterior_angle_item
EXExterior == Range(100, 160, 5)
EXRemote == Range(20, 70, 5)

ExteriorAngleItem(x, a, p) ==
    LET b == x - a
    IN ObjItem(<<"EX-">> \o Str(x) \o <<"-">> \o Str(a),
               "exterior_angle",
               <<"an exterior angle is ">> \o Str(x) \o <<"deg, one remote interior angle is ">>
                   \o Str(a) \o <<"deg; the other remote interior angle?">>,
               Shuffle(<<Str(b), Str(b + 5), Str(b - 10), Str(b + 15)>>, p),
               Str(b))

\* --- gen_triangle_types_item
TTSides == Range(3, 12, 1)
TTModes == <<"sides", "angles">>
TTAngles == <<30, 45, 60, 70, 80, 90, 100, 120>>

\* sorted(random.sample(population, 3)): three distinct members, ascending
SortedSamples(population) ==
    {t \in population \X population \X population : t[1] < t[2] /\ t[2] < t[3]}

\* the loop condition "while a + b <= c"
TTReject(a, b, c) == a + b <= c

ClassifySides(a, b, c) ==
    IF a = b /\ b = c THEN <<"equilateral triangle">>
    ELSE IF a = b \/ b = c THEN <<"isosceles triangle">>
    ELSE <<"scalene triangle">>

\* variant: the right-angle test taken as a threshold
ClassifyAngleLoose(A) ==
    IF A >= 90 THEN <<"right triangle">>
    ELSE IF A > 90 THEN <<"obtuse triangle">>
    ELSE <<"acute triangle">>

ClassifyAngle(A) ==
    IF A = 90 THEN <<"right triangle">>
    ELSE IF A > 90 THEN <<"obtuse triangle">>
    ELSE <<"acute triangle">>

TriangleSidesItem(a, b, c, p, num) ==
    ObjItem(<<"TT-">> \o Str(num),
            "triangle_types",
            <<"the side lengths are ">> \o Str(a) \o <<", ">> \o Str(b) \o <<", ">>
                \o Str(c) \o <<"; classify the triangle">>,
            Shuffle(<< <<"equilateral triangle">>, <<"isosceles triangle">>,
                       <<"right triangle">>, <<"scalene triangle">> >>, p),
            ClassifySides(a, b, c))

TriangleAnglesItem(A, p, num) ==
    ObjItem(<<"TT-">> \o Str(num),
            "triangle_types",
            <<"one angle of a triangle is ">> \o Str(A) \o <<"deg; classify the triangle">>,
            Shuffle(<< <<"acute triangle">>, <<"right triangle">>,
                       <<"obtuse triangle">>, <<"equilateral triangle">> >>, p),
            ClassifyAngle(A))

\* --- gen_congruence_item
CGOptions == <<"SSS", "SAS", "ASA", "AAS", "HL(right triangle)">>
CGPatterns == SubSeq(CGOptions, 1, 4)

\* variant: the last branch draws from options[3:]
CGAnswersShifted(pattern) ==
    CASE pattern = "SSS" -> {"SSS"}
      [] pattern = "SAS" -> {"SAS"}
      [] pattern = "ASA" -> {"AAS"}
      [] OTHER -> {"AAS", "HL(right triangle)"}

\* the answers the branch of a pattern can assign (the last branch draws one of two)
CGAnswers(pattern) ==
    CASE pattern = "SSS" -> {"SSS"}
      [] pattern = "SAS" -> {"SAS"}
      [] pattern = "ASA" -> {"AAS"}
      [] OTHER -> {"ASA", "AAS"}

CGStem(pattern) ==
    CASE pattern = "SSS" -> <<"three pairs of corresponding sides are equal; which criterion?">>
      [] pattern = "SAS" -> <<"two sides and the included angle are equal; which criterion?">>
      [] pattern = "ASA" -> <<"two angles and a side not between them are equal; which criterion?">>
      [] OTHER -> <<"two angles and one side are equal; which criterion?">>

CongruenceItem(pattern, ans, p, num) ==
    ObjItem(<<"CG-">> \o Str(num),
            "congruence",
            CGStem(pattern),
            Shuffle([i \in 1 .. 5 |->
                       IF i <= 4 THEN <<CGPatterns[i]>> ELSE <<"undecidable">>], p),
            <<ans>>)

\* --- gen_similarity_item
SIMFirst == <<30, 40, 50, 60>>
SIMSecond == <<40, 50, 60, 70>>

SimilarityItem(A, B, p) ==
    ObjItem(<<"SIM-">> \o Str(A) \o <<"-">> \o Str(B),
            "similarity_basic",
            <<"two angles of both triangles are ">> \o Str(A) \o <<"deg, ">> \o Str(B)
                \o <<"deg; is similarity decidable?">>,
            Shuffle(<< <<"possible(AA)">>, <<"impossible">>,
                       <<"possible(SSS)">>, <<"possible(SAS)">> >>, p),
            <<"possible(AA)">>)

NoItem == [id |-> <<>>, topic |-> "", stem |-> <<>>, choices |-> <<>>,
           answer |-> None, kind |-> "", points |-> 0]

-----------------------------------------------------------------------------
(* One generator call, statement by statement (the rejection loops are steps) *)

GenReturn(item) ==
    /\ gpc' = "done"
    /\ gitem' = item

\* gen_angle_sum_item: the first two draws
AS_Draw ==
    /\ gpc = "idle"
    /\ \E a \in ASAngles, b \in ASAngles :
         glocals' = [fn |-> "angle_sum", a |-> a, b |-> b, redrawn |-> FALSE]
    /\ gpc' = "as_loop"
    /\ UNCHANGED <<gitem, sessionVars>>

\* the loop body: the condition holds, both angles are drawn again
AS_Resample ==
    /\ gpc = "as_loop"
    /\ ASReject(glocals.a, glocals.b)
    /\ \E a \in ASAngles, b \in ASAngles :
         glocals' = [fn |-> "angle_sum", a |-> a, b |-> b, redrawn |-> TRUE]
    /\ UNCHANGED <<gpc, gitem, sessionVars>>

\* the loop is left: shuffle and return
AS_Return ==
    /\ gpc = "as_loop"
    /\ ~ASReject(glocals.a, glocals.b)
    /\ \E p \in Perms4 : GenReturn(AngleSumItem(glocals.a, glocals.b, p))
    /\ UNCHANGED <<glocals, sessionVars>>

EX_Gen ==
    /\ gpc = "idle"
    /\ \E x \in EXExterior, a \in EXRemote, p \in Perms4 :
         /\ glocals' = [fn |-> "exterior_angle", x |-> x, a |-> a]
         /\ GenReturn(ExteriorAngleItem(x, a, p))
    /\ UNCHANGED sessionVars

\* gen_triangle_types_item, mode "sides": the first sample
TT_DrawSides ==
    /\ gpc = "idle"
    /\ \E t \in SortedSamples(TTSides) :
         glocals' = [fn |-> "triangle_types", mode |-> "sides",
                     a |-> t[1], b |-> t[2], c |-> t[3], redrawn |-> FALSE]
    /\ gpc' = "tt_loop"
    /\ UNCHANGED <<gitem, sessionVars>>

TT_Resample ==
    /\ gpc = "tt_loop"
    /\ TTReject(glocals.a, glocals.b, glocals.c)
    /\ \E t \in SortedSamples(TTSides) :
         glocals' = [fn |-> "triangle_types", mode |-> "sides",
                     a |-> t[1], b |-> t[2], c |-> t[3], redrawn |-> TRUE]
    /\ UNCHANGED <<gpc, gitem, sessionVars>>

TT_ReturnSides ==
    /\ gpc = "tt_loop"
    /\ ~TTReject(glocals.a, glocals.b, glocals.c)
    /\ \E p \in Perms4, num \in ItemNumbers :
         GenReturn(TriangleSidesItem(glocals.a, glocals.b, glocals.c, p, num))
    /\ UNCHANGED <<glocals, sessionVars>>

\* gen_triangle_types_item, mode "angles"
TT_Angles ==
    /\ gpc = "idle"
    /\ \E A \in SeqToSet(TTAngles), p \in Perms4, num \in ItemNumbers :
         /\ glocals' = [fn |-> "triangle_types", mode |-> "angles", A |-> A]
         /\ GenReturn(TriangleAnglesItem(A, p, num))
    /\ UNCHANGED sessionVars

CG_Gen ==
    /\ gpc = "idle"
    /\ \E pattern \in SeqToSet(CGPatterns), p \in Perms5, num \in ItemNumbers :
         \E ans \in CGAnswers(pattern) :
           /\ glocals' = [fn |-> "congruence", pattern |-> pattern]
           /\ GenReturn(CongruenceItem(pattern, ans, p, num))
    /\ UNCHANGED sessionVars

SIM_Gen ==
    /\ gpc = "idle"
    /\ \E A \in SeqToSet(SIMFirst), B \in SeqToSet(SIMSecond), p \in Perms4 :
         /\ glocals' = [fn |-> "similarity_basic", A |-> A, B |-> B]
         /\ GenReturn(SimilarityItem(A, B, p))
    /\ UNCHANGED sessionVars

\* the caller's loop goes on to its next call
GenNextCall ==
    /\ gpc = "done"
    /\ gpc' = "idle"
    /\ glocals' = [fn |-> ""]
    /\ gitem' = NoItem
    /\ UNCHANGED sessionVars

-----------------------------------------------------------------------------
(* Session state: dicts, roster, tasks *)

\* A Python dict, in insertion order: a sequence of [k, v] entries.
DictKeys(d) == {d[i].k : i \in 1 .. Len(d)}
DictHas(d, k) == \E i \in 1 .. Len(d) : d[i].k = k
DictGet(d, k) == d[CHOOSE i \in 1 .. Len(d) : d[i].k = k].v

\* variant: a list of entries that every write appends to
DictAppend(d, k, v) == Append(d, [k |-> k, v |-> v])

\* d[k] = v: the entry of k is overwritten in place, a new key is appended
DictSet(d, k, v) ==
    IF DictHas(d, k)
    THEN [i \in 1 .. Len(d) |-> IF d[i].k = k THEN [k |-> k, v |-> v] ELSE d[i]]
    ELSE Append(d, [k |-> k, v |-> v])

TOPICS == <<"triangle_angle_sum", "exterior_angle", "triangle_types",
            "congruence", "similarity_basic">>

RUBRIC_CRITERIA == <<"concept", "procedure", "reasoning", "communication">>

PerfTask(id, topic) == [id |-> id, topic |-> topic, points |-> TaskPoints]

PERF_BANK == <<PerfTask(<<"PT-1">>, "congruence"),
               PerfTask(<<"PT-2">>, "exterior_angle"),
               PerfTask(<<"PT-3">>, "triangle_angle_sum")>>

\* the three-row sample roster
SampleRoster ==
    [columns |-> <<"ID", "ireum">>,
     rows |-> << << <<"S001">>, <<"Hong Gildong">> >>,
                 << <<"S002">>, <<"Kim Younghee">> >>,
                 << <<"S003">>, <<"Lee Minho">> >> >>]

\* position of a column label in a table (the first one that carries it)
ColIndex(df, label) == CHOOSE j \in 1 .. Len(df.columns) : df.columns[j] = label

\* students["ireum"].tolist()
RosterNames(df) == [r \in 1 .. Len(df.rows) |-> df.rows[r][ColIndex(df, "ireum")]]

\* students.set_index("ireum").loc[student, "ID"]
RosterId(df, student) ==
    LET r == CHOOSE r \in 1 .. Len(df.rows) : df.rows[r][ColIndex(df, "ireum")] = student
    IN df.rows[r][ColIndex(df, "ID")]

\* st.session_state.get("resp_<id>")
WidgetKey(item) == <<"resp_">> \o item.id
WidgetGet(w, key) == IF key \in DOMAIN w THEN w[key] ELSE None

-----------------------------------------------------------------------------
(* Generate button *)

\* The draws the session explores: the first DrawWidth values of each range.
SessionDraws ==
    [angles |-> Smallest(ASAngles, DrawWidth), exts |-> Smallest(EXExterior, DrawWidth),
     rems |-> Smallest(EXRemote, DrawWidth), sides |-> Smallest(TTSides, 2 + DrawWidth),
     modes |-> FirstK(TTModes, DrawWidth), tangles |-> FirstK(TTAngles, DrawWidth),
     patterns |-> LastK(CGPatterns, DrawWidth),
     sfirst |-> FirstK(SIMFirst, DrawWidth), ssecond |-> FirstK(SIMSecond, DrawWidth),
     p4 |-> Rotations(4, DrawWidth), p5 |-> Rotations(5, DrawWidth),
     nums |-> Smallest(ItemNumbers, DrawWidth)]

\* the items GEN_FUNCS[tk]() can return when its draws range over D
GenResults(tk, D) ==
    CASE tk = "triangle_angle_sum" ->
           {AngleSumItem(d[1], d[2], p) :
              d \in {d \in D.angles \X D.angles : ~ASReject(d[1], d[2])}, p \in D.p4}
      [] tk = "exterior_angle" ->
           {ExteriorAngleItem(x, a, p) : x \in D.exts, a \in D.rems, p \in D.p4}
      [] tk = "triangle_types" ->
           (IF "sides" \in D.modes
            THEN {TriangleSidesItem(t[1], t[2], t[3], p, num) :
                    t \in {t \in SortedSamples(D.sides) : ~TTReject(t[1], t[2], t[3])},
                    p \in D.p4, num \in D.nums}
            ELSE {})
           \cup
           (IF "angles" \in D.modes
            THEN {TriangleAnglesItem(A, p, num) :
                    A \in D.tangles, p \in D.p4, num \in D.nums}
            ELSE {})
      [] tk = "congruence" ->
           UNION {{CongruenceItem(pattern, ans, p, num) :
                     ans \in CGAnswers(pattern), p \in D.p5, num \in D.nums} :
                  pattern \in D.patterns}
      [] tk = "similarity_basic" ->
           {SimilarityItem(A, B, p) : A \in D.sfirst, B \in D.ssecond, p \in D.p4}

\* topic_keys = [k for t, k in TOPICS if t in topics_selected]
TopicKeys(selected) == SelectSeq(TOPICS, LAMBDA k : k \in selected)

\* "for i in range(n_items): tk = random.choice(topic_keys); items.append(GEN_FUNCS[tk]())"
GeneratedQuizzes(n_items, topic_keys, D) ==
    [1 .. n_items -> UNION {GenResults(tk, D) : tk \in SeqToSet(topic_keys)}]

Ran(op, e) == /\ last' = op
              /\ err' = e
              /\ steps' = steps + 1

\* variant: a new quiz also starts a new response store
GenerateFresh(n_items, selected, D) ==
    LET topic_keys == TopicKeys(selected)
    IN /\ steps < MaxSteps
       /\ IF topic_keys = <<>>
          THEN /\ Ran([op |-> "generate", n |-> n_items, topics |-> selected], "IndexError")
               /\ UNCHANGED <<quiz_items, responses>>
          ELSE /\ \E items \in GeneratedQuizzes(n_items, topic_keys, D) :
                    quiz_items' = items
               /\ responses' = <<>>
               /\ Ran([op |-> "generate", n |-> n_items, topics |-> selected], "")
       /\ UNCHANGED <<widgets, rubric_scores, students, report, genVars>>

\* the Generate button: random.choice of an empty topic list raises IndexError
Generate(n_items, selected, D) ==
    LET topic_keys == TopicKeys(selected)
    IN /\ steps < MaxSteps
       /\ IF topic_keys = <<>>
          THEN /\ Ran([op |-> "generate", n |-> n_items, topics |-> selected], "IndexError")
               /\ UNCHANGED quiz_items
          ELSE /\ \E items \in GeneratedQuizzes(n_items, topic_keys, D) :
                    quiz_items' = items
               /\ Ran([op |-> "generate", n |-> n_items, topics |-> selected], "")
       /\ UNCHANGED <<widgets, responses, rubric_scores, students, report, genVars>>

-----------------------------------------------------------------------------
(* Objective quiz: answering and auto-grading *)

\* the radio widget of item i is set to one of the item's choices
SelectChoice(i, choice) ==
    /\ steps < MaxSteps
    /\ quiz_items # <<>>
    /\ i \in 1 .. Len(quiz_items)
    /\ choice \in SeqToSet(quiz_items[i].choices)
    /\ LET key == WidgetKey(quiz_items[i])
       IN widgets' = [k \in DOMAIN widgets \cup {key} |->
                        IF k = key THEN StrV(choice) ELSE widgets[k]]
    /\ Ran([op |-> "select"], "")
    /\ UNCHANGED <<quiz_items, responses, rubric_scores, students, report, genVars>>

\* variant: half credit for a wrong response
GradeRecordHalf(item, resp) ==
    LET correct == PyStr(resp) = PyStr(item.answer)
    IN [response |-> resp, correct |-> correct,
        score |-> IF correct THEN item.points ELSE item.points \div 2,
        answer |-> item.answer, topic |-> item.topic]

\* the record the loop body stores for one item
GradeRecord(item, resp) ==
    LET correct == PyStr(resp) = PyStr(item.answer)
    IN [response |-> resp, correct |-> correct,
        score |-> IF correct THEN item.points ELSE 0,
        answer |-> item.answer, topic |-> item.topic]

\* the loop "for item in quiz_items" from item i on: the store, total and max_total
RECURSIVE GradeLoop(_, _, _, _, _)
GradeLoop(items, i, sid, w, acc) ==
    IF i > Len(items) THEN acc
    ELSE LET item == items[i]
             rec == GradeRecord(item, WidgetGet(w, WidgetKey(item)))
         IN GradeLoop(items, i + 1, sid, w,
                      [store |-> DictSet(acc.store, <<sid, item.id>>, rec),
                       total |-> acc.total + rec.score,
                       max_total |-> acc.max_total + item.points])

\* the Auto-grade button, shown only when a quiz exists
AutoGrade(student) ==
    /\ steps < MaxSteps
    /\ quiz_items # <<>>
    /\ student \in SeqToSet(RosterNames(students))
    /\ LET sid == RosterId(students, student)
           out == GradeLoop(quiz_items, 1, sid, widgets,
                            [store |-> responses, total |-> 0, max_total |-> 0])
       IN /\ responses' = out.store
          /\ report' = [student |-> student, total |-> out.total,
                        max_total |-> out.max_total]
          /\ Ran([op |-> "grade", sid |-> sid,
                  again |-> last.op = "grade" /\ last.sid = sid], "")
    /\ UNCHANGED <<quiz_items, widgets, rubric_scores, students, genVars>>

-----------------------------------------------------------------------------
(* Performance task: rubric save *)

\* the record "{**rubric_levels, 'notes': notes, 'task_points': task_obj.points}"
RubricRecord(rubric_levels, notes, task) ==
    [concept |-> rubric_levels["concept"], procedure |-> rubric_levels["procedure"],
     reasoning |-> rubric_levels["reasoning"],
     communication |-> rubric_levels["communication"],
     notes |-> notes, task_points |-> task.points]

\* variant: an existing record is kept (setdefault)
RubricSaveFirstWins(student2, task, rubric_levels, notes) ==
    /\ steps < MaxSteps
    /\ student2 \in SeqToSet(RosterNames(students))
    /\ LET sid2 == RosterId(students, student2)
       IN /\ rubric_scores' =
               IF DictHas(rubric_scores, <<sid2, task.id>>) THEN rubric_scores
               ELSE DictSet(rubric_scores, <<sid2, task.id>>,
                            RubricRecord(rubric_levels, notes, task))
          /\ Ran([op |-> "rubric", sid |-> sid2, task |-> task.id,
                  levels |-> rubric_levels, notes |-> notes,
                  overwrote |-> DictHas(rubric_scores, <<sid2, task.id>>)], "")
    /\ UNCHANGED <<quiz_items, widgets, responses, students, report, genVars>>

\* the rubric save button
RubricSave(student2, task, rubric_levels, notes) ==
    /\ steps < MaxSteps
    /\ student2 \in SeqToSet(RosterNames(students))
    /\ LET sid2 == RosterId(students, student2)
       IN /\ rubric_scores' = DictSet(rubric_scores, <<sid2, task.id>>,
                                      RubricRecord(rubric_levels, notes, task))
          /\ Ran([op |-> "rubric", sid |-> sid2, task |-> task.id,
                  levels |-> rubric_levels, notes |-> notes,
                  overwrote |-> DictHas(rubric_scores, <<sid2, task.id>>)], "")
    /\ UNCHANGED <<quiz_items, widgets, responses, students, report, genVars>>

\* "sum(existing[c['key']] for c in RUBRIC_CRITERIA)", the displayed criterion sum
RubricSum(rec) == rec.concept + rec.procedure + rec.reasoning + rec.communication

-----------------------------------------------------------------------------
(* Roster upload *)

\* c.lower() on the column names the model uploads
Lower(c) ==
    CASE c = "ID" -> "id"
      [] c = "Id" -> "id"
      [] c = "Name" -> "name"
      [] c = "NAME" -> "name"
      [] OTHER -> c

\* cols_lower.get(key), cols_lower = {c.lower(): c for c in df.columns}: the last
\* column with that lower-cased name, "" (falsy) when there is none
ColsLowerGet(columns, key) ==
    IF \E j \in 1 .. Len(columns) : Lower(columns[j]) = key
    THEN LET j == CHOOSE j \in 1 .. Len(columns) :
                    /\ Lower(columns[j]) = key
                    /\ \A m \in (j + 1) .. Len(columns) : Lower(columns[m]) # key
         IN columns[j]
    ELSE ""

\* what the upload block does with the parsed file: the exception it raises, or the
\* table it stores
UploadResult(df) ==
    LET byId == ColsLowerGet(df.columns, "id")
        byHakbun == ColsLowerGet(df.columns, "hakbun")
        byIreum == ColsLowerGet(df.columns, "ireum")
        byName == ColsLowerGet(df.columns, "name")
        id_col == IF byId # "" THEN byId
                  ELSE IF byHakbun # "" THEN byHakbun ELSE df.columns[1]
    IN IF byIreum = "" /\ byName = "" /\ Len(df.columns) < 2
       THEN [err |-> "IndexError", df |-> df]
       ELSE
       LET name_col == IF byIreum # "" THEN byIreum
                       ELSE IF byName # "" THEN byName ELSE df.columns[2]
           \* rename(columns={id_col: "ID", name_col: "ireum"}): one dict, the later
           \* entry wins when both keys are the same column
           renamed == [j \in 1 .. Len(df.columns) |->
                         IF df.columns[j] = name_col THEN "ireum"
                         ELSE IF df.columns[j] = id_col THEN "ID"
                         ELSE df.columns[j]]
           \* [["ID", "ireum"]]: every column carrying each label, in that order
           picked == SelectSeq([j \in 1 .. Len(renamed) |-> j],
                               LAMBDA j : renamed[j] = "ID")
                     \o SelectSeq([j \in 1 .. Len(renamed) |-> j],
                                  LAMBDA j : renamed[j] = "ireum")
       IN IF ~(\E j \in 1 .. Len(renamed) : renamed[j] = "ID")
             \/ ~(\E j \in 1 .. Len(renamed) : renamed[j] = "ireum")
          THEN [err |-> "KeyError", df |-> df]
          ELSE [err |-> "",
                df |-> [columns |-> [m \in 1 .. Len(picked) |-> renamed[picked[m]]],
                        rows |-> [r \in 1 .. Len(df.rows) |->
                                    [m \in 1 .. Len(picked) |-> df.rows[r][picked[m]]]]]]

\* the file uploader block: an exception leaves the roster as it was
Upload(df) ==
    /\ steps < MaxSteps
    /\ LET res == UploadResult(df)
       IN /\ students' = IF res.err = "" THEN res.df ELSE students
          /\ Ran([op |-> "upload"], res.err)
    /\ UNCHANGED <<quiz_items, widgets, responses, rubric_scores, report, genVars>>

-----------------------------------------------------------------------------
(* Analytics: mastery by topic *)

\* the rows of the (student, topic) group in the response store
GroupRows(store, sid, topic) ==
    {i \in 1 .. Len(store) : store[i].k[1] = sid /\ store[i].v.topic = topic}

\* round(100 * k / n, 1), in tenths of a percent
PercentTenths(k, n) == (2000 * k + n) \div (2 * n)

\* resp_df.groupby(["student id", "topic"])["correct"].mean(), with the percentage
Mastery(store) ==
    LET groups == {<<store[i].k[1], store[i].v.topic>> : i \in 1 .. Len(store)}
    IN [g \in groups |->
          LET rows == GroupRows(store, g[1], g[2])
              good == {i \in rows : store[i].v.correct}
          IN [rows |-> Cardinality(rows), correct |-> Cardinality(good),
              percent_tenths |-> PercentTenths(Cardinality(good), Cardinality(rows))]]

-----------------------------------------------------------------------------
(* Initial state and the inputs the handlers are run with *)

Init ==
    /\ gpc = "idle"
    /\ glocals = [fn |-> ""]
    /\ gitem = NoItem
    /\ quiz_items = <<>>
    /\ widgets = <<>>
    /\ responses = <<>>
    /\ rubric_scores = <<>>
    /\ students = SampleRoster
    /\ report = [student |-> <<>>, total |-> 0, max_total |-> 0]
    /\ err = ""
    /\ last = [op |-> "start"]
    /\ steps = 0

\* topic multiselect settings the session tries
SessionSelections == {sel \in SUBSET SeqToSet(TOPICS) : Cardinality(sel) <= MaxTopics}

\* the roster rows picked in the student select boxes
Targets(df) == FirstK(RosterNames(df), MaxStudents)

\* slider and note settings tried for a rubric: the untouched form, and the
\* 3/4/2/3 example with a note
RubricInputs ==
    {[levels |-> [c \in SeqToSet(RUBRIC_CRITERIA) |-> 3], notes |-> <<>>],
     [levels |-> [concept |-> 3, procedure |-> 4, reasoning |-> 2, communication |-> 3],
      notes |-> <<"evidence">>]}

\* header rows of the uploaded files: one to MaxCols distinct column names
ColNames == {"ID", "ireum", "Name", "x"}

Headers ==
    UNION {{h \in [1 .. n -> ColNames] : \A i, j \in 1 .. n : h[i] = h[j] => i = j} :
           n \in 1 .. MaxCols}

\* the parsed file: two data rows under the header
UploadedFile(header) ==
    [columns |-> header,
     rows |-> [r \in 1 .. 2 |->
                 [j \in 1 .. Len(header) |-> <<"r">> \o Str(r) \o <<"c">> \o Str(j)]]]

DoGenerate ==
    \E n_items \in MinItems .. MaxItems, selected \in SessionSelections :
        Generate(n_items, selected, SessionDraws)

DoSelectChoice ==
    \E i \in 1 .. Len(quiz_items) :
        \E choice \in SeqToSet(quiz_items[i].choices) : SelectChoice(i, choice)

DoAutoGrade == \E student \in Targets(students) : AutoGrade(student)

DoRubricSave ==
    \E student2 \in Targets(students), t \in 1 .. Len(PERF_BANK), in \in RubricInputs :
        RubricSave(student2, PERF_BANK[t], in.levels, in.notes)

DoUpload == \E header \in Headers : Upload(UploadedFile(header))

Next ==
    \/ DoGenerate
    \/ DoSelectChoice
    \/ DoAutoGrade
    \/ DoRubricSave
    \/ DoUpload

Spec == Init /\ [][Next]_vars

NextGen ==
    \/ AS_Draw
    \/ AS_Resample
    \/ AS_Return
    \/ EX_Gen
    \/ TT_DrawSides
    \/ TT_Resample
    \/ TT_ReturnSides
    \/ TT_Angles
    \/ CG_Gen
    \/ SIM_Gen
    \/ GenNextCall

SpecGen == Init /\ [][NextGen]_vars

\* The rejection loops under fair random draws: a draw that leaves the loop is
\* made eventually, and a call that may return does.
AS_ExitDraw == AS_Resample /\ ~ASReject(glocals'.a, glocals'.b)
TT_ExitDraw == TT_Resample /\ ~TTReject(glocals'.a, glocals'.b, glocals'.c)

SpecGenFair ==
    /\ SpecGen
    /\ SF_vars(AS_ExitDraw)
    /\ SF_vars(TT_ExitDraw)
    /\ WF_vars(AS_Return)
    /\ WF_vars(TT_ReturnSides)

-----------------------------------------------------------------------------
(* Properties *)

RECURSIVE SumTo(_, _)
SumTo(f, n) == IF n = 0 THEN 0 ELSE f[n] + SumTo(f, n - 1)

\* int(s) for a string of decimal digits
DigitValue(ch) == (CHOOSE d \in 1 .. 10 : DigitChars[d] = ch) - 1

RECURSIVE ParseDigits(_)
ParseDigits(s) ==
    IF Len(s) = 0 THEN 0
    ELSE 10 * ParseDigits(SubSeq(s, 1, Len(s) - 1)) + DigitValue(s[Len(s)])

QuizIds == {quiz_items[i].id : i \in 1 .. Len(quiz_items)}

\* the response the form holds for item i, and whether it is the canonical answer
FormResponse(i) == WidgetGet(widgets, WidgetKey(quiz_items[i]))
IsCanonical(i) == PyStr(FormResponse(i)) = PyStr(quiz_items[i].answer)
FullOrZero(i) == IF IsCanonical(i) THEN quiz_items[i].points ELSE 0

\* the last item of the quiz carrying the id of item i
LastWithId(i) ==
    \A j \in (i + 1) .. Len(quiz_items) : quiz_items[j].id # quiz_items[i].id

\* C1: after Auto-grade, every item was awarded its full points when the response,
\* as a string, equals the canonical answer as a string, and zero otherwise; the
\* reported total is the sum of the awarded scores and the reported maximum the sum
\* of all item points; with the canonical answer given to every item the total is
\* the sum of all item points.
C1_FullPointsOrZero ==
    last.op = "grade" =>
      LET n == Len(quiz_items)
          awarded == [i \in 1 .. n |-> FullOrZero(i)]
          points == [i \in 1 .. n |-> quiz_items[i].points]
      IN /\ report.total = SumTo(awarded, n)
         /\ report.max_total = SumTo(points, n)
         /\ \A i \in 1 .. n :
              LastWithId(i) =>
                /\ DictHas(responses, <<last.sid, quiz_items[i].id>>)
                /\ LET rec == DictGet(responses, <<last.sid, quiz_items[i].id>>)
                   IN /\ rec.correct = IsCanonical(i)
                      /\ rec.score = FullOrZero(i)
                      /\ rec.score \in {0, quiz_items[i].points}
         /\ (\A i \in 1 .. n : IsCanonical(i)) => report.total = SumTo(points, n)

C1_Witness ==
    /\ last.op = "grade"
    /\ \A i \in 1 .. Len(quiz_items) : IsCanonical(i)
    /\ report.total = MinItems * ItemPoints
    /\ report.total = report.max_total

\* C2: Auto-grade run a second time in a row for the same student (nothing in
\* between, so quiz and responses are unchanged) leaves the response store and the
\* reported total and maximum as the first run left them.
C2_GradeIdempotent ==
    [][(last.op = "grade" /\ last'.op = "grade" /\ last'.sid = last.sid)
         => (responses' = responses /\ report' = report)]_vars

C2_Witness ==
    /\ last.op = "grade"
    /\ last.again
    /\ report.total > 0

\* C3: a rubric save leaves one record per (student, task) key; the record of the
\* saved key is the four levels, the notes and the task points just entered; the
\* records of all other keys are as before; and a save repeated with the same inputs
\* leaves the store as the first save left it.
C3_RubricLastWriteWins ==
    [][last'.op = "rubric" =>
        LET key == <<last'.sid, last'.task>>
        IN /\ Cardinality(DictKeys(rubric_scores')) = Len(rubric_scores')
           /\ DictKeys(rubric_scores') = DictKeys(rubric_scores) \cup {key}
           /\ DictGet(rubric_scores', key) =
                [concept |-> last'.levels["concept"],
                 procedure |-> last'.levels["procedure"],
                 reasoning |-> last'.levels["reasoning"],
                 communication |-> last'.levels["communication"],
                 notes |-> last'.notes, task_points |-> TaskPoints]
           /\ \A k \in DictKeys(rubric_scores) \ {key} :
                DictGet(rubric_scores', k) = DictGet(rubric_scores, k)
           /\ (/\ last.op = "rubric"
               /\ <<last.sid, last.task>> = key
               /\ last.levels = last'.levels
               /\ last.notes = last'.notes) => rubric_scores' = rubric_scores]_vars

C3_Witness ==
    /\ last.op = "rubric"
    /\ last.overwrote
    /\ Len(rubric_scores) >= 2
    /\ DictGet(rubric_scores, <<last.sid, last.task>>).notes = <<"evidence">>
    /\ DictGet(rubric_scores, <<last.sid, last.task>>).task_points = TaskPoints
    /\ RubricSum(DictGet(rubric_scores, <<last.sid, last.task>>)) = 12

\* C4: every item gen_angle_sum_item returns has two given angles that sum to at
\* most 169, carries them in its id, and has the string of 180 - (a + b), a number
\* of at least 11, as its canonical answer.
C4_AngleSumItem ==
    (gpc = "done" /\ glocals.fn = "angle_sum") =>
      /\ glocals.a + glocals.b <= 169
      /\ gitem.id = <<"AS-">> \o Str(glocals.a) \o <<"-">> \o Str(glocals.b)
      /\ PyStr(gitem.answer) = Str(180 - (glocals.a + glocals.b))
      /\ ParseDigits(PyStr(gitem.answer)) = 180 - (glocals.a + glocals.b)
      /\ ParseDigits(PyStr(gitem.answer)) >= 11

C4_Witness ==
    /\ gpc = "done"
    /\ glocals.fn = "angle_sum"
    /\ glocals.a + glocals.b = 165
    /\ PyStr(gitem.answer) = <<"1", "5">>

\* C5: every item gen_triangle_types_item returns is answered by the class of its
\* sampled parameters: in sides mode the sorted lengths satisfy a + b > c and the
\* answer is equilateral iff all three are equal, isosceles iff exactly two are
\* equal, scalene iff all differ; in angles mode the answer is right iff the angle
\* is 90, acute iff it is below 90, obtuse iff it is above 90.
C5_TriangleTypesItem ==
    (gpc = "done" /\ glocals.fn = "triangle_types") =>
      LET ans == PyStr(gitem.answer)
      IN IF glocals.mode = "sides"
         THEN LET a == glocals.a
                  b == glocals.b
                  c == glocals.c
                  equal == Cardinality({pr \in {<<a, b>>, <<b, c>>, <<a, c>>} :
                                          pr[1] = pr[2]})
              IN /\ a <= b /\ b <= c
                 /\ a + b > c
                 /\ (ans = <<"equilateral triangle">>) <=> (equal = 3)
                 /\ (ans = <<"isosceles triangle">>) <=> (equal = 1)
                 /\ (ans = <<"scalene triangle">>) <=> (equal = 0)
                 /\ ans \in {<<"equilateral triangle">>, <<"isosceles triangle">>,
                             <<"scalene triangle">>}
         ELSE /\ (ans = <<"right triangle">>) <=> (glocals.A = 90)
              /\ (ans = <<"acute triangle">>) <=> (glocals.A < 90)
              /\ (ans = <<"obtuse triangle">>) <=> (glocals.A > 90)
              /\ ans \in {<<"right triangle">>, <<"acute triangle">>,
                          <<"obtuse triangle">>}

C5_Witness ==
    /\ gpc = "done"
    /\ glocals.fn = "triangle_types"
    /\ glocals.mode = "sides"
    /\ glocals.a + glocals.b = glocals.c + 1
    /\ PyStr(gitem.answer) = <<"scalene triangle">>

\* C6: after a Generate with a non-empty topic selection the active quiz has exactly
\* the requested number of items; each item's topic is one of the selected topics,
\* and its choice list is non-empty and contains its canonical answer.
C6_GenerateWellFormed ==
    (last.op = "generate" /\ last.topics # {}) =>
      /\ err = ""
      /\ Len(quiz_items) = last.n
      /\ \A i \in 1 .. Len(quiz_items) :
           LET item == quiz_items[i]
           IN /\ item.topic \in last.topics
              /\ item.kind = "MCQ"
              /\ Len(item.choices) > 0
              /\ \E c \in 1 .. Len(item.choices) : item.choices[c] = PyStr(item.answer)

C6_Witness ==
    /\ last.op = "generate"
    /\ last.topics = {"congruence"}
    /\ Len(quiz_items) = MinItems
    /\ \E i, j \in 1 .. Len(quiz_items) :
         /\ PyStr(quiz_items[i].answer) = <<"ASA">>
         /\ PyStr(quiz_items[j].answer) = <<"AAS">>

\* the rows of the response store that belong to the graded student and to an item
\* of the active quiz
ActiveRows(sid) ==
    {r \in 1 .. Len(responses) : responses[r].k[1] = sid /\ responses[r].k[2] \in QuizIds}

RECURSIVE SumScores(_)
SumScores(rows) ==
    IF rows = {} THEN 0
    ELSE LET r == CHOOSE r \in rows : TRUE
         IN responses[r].v.score + SumScores(rows \ {r})

\* C7: after Auto-grade of a student against a quiz of n items the response store
\* holds n records of that student for the items of the quiz, and their scores sum
\* to the reported total.
C7_OneRecordPerItem ==
    last.op = "grade" =>
      /\ Cardinality(ActiveRows(last.sid)) = Len(quiz_items)
      /\ SumScores(ActiveRows(last.sid)) = report.total

\* C8: a roster upload never raises, and leaves a two-column (ID, ireum) roster.
C8_UploadNeverRaises ==
    last.op = "upload" =>
      /\ err = ""
      /\ students.columns = <<"ID", "ireum">>

\* rows of the response store whose item is not in the active quiz
StaleRows(store, items) ==
    {r \in 1 .. Len(store) : \A i \in 1 .. Len(items) : items[i].id # store[r].k[2]}

\* C10: Generate leaves the response store, the rubric store and the roster as they
\* were; the records graded against the previous quiz stay in the store, and the
\* mastery table, computed over the whole store, still counts each of them.
C10_GenerateFrame ==
    [][last'.op = "generate" =>
        /\ responses' = responses
        /\ rubric_scores' = rubric_scores
        /\ students' = students
        /\ StaleRows(responses, quiz_items') \subseteq StaleRows(responses', quiz_items')
        /\ \A r \in 1 .. Len(responses') :
             LET g == <<responses'[r].k[1], responses'[r].v.topic>>
             IN /\ g \in DOMAIN Mastery(responses')
                /\ Mastery(responses')[g].rows =
                     Cardinality({q \in 1 .. Len(responses') :
                                    <<responses'[q].k[1], responses'[q].v.topic>> = g})
                /\ Mastery(responses')[g].correct =
                     Cardinality({q \in 1 .. Len(responses') :
                                    /\ <<responses'[q].k[1], responses'[q].v.topic>> = g
                                    /\ responses'[q].v.correct})]_vars

C10_Witness ==
    /\ last.op = "generate"
    /\ err = ""
    /\ \E r \in StaleRows(responses, quiz_items) :
         /\ responses[r].v.correct
         /\ Mastery(responses)[<<responses[r].k[1], responses[r].v.topic>>].percent_tenths
              = 1000

\* C9: a generator call inside a rejection loop always has a draw that leaves the
\* loop, and under fair draws every call that entered a loop returns an item.
InLoop == gpc \in {"as_loop", "tt_loop"}

ExitAvailable ==
    /\ gpc = "as_loop" => \E a \in ASAngles, b \in ASAngles : ~ASReject(a, b)
    /\ gpc = "tt_loop" => \E t \in SortedSamples(TTSides) : ~TTReject(t[1], t[2], t[3])

C9_LoopsTerminate ==
    /\ [](InLoop => ExitAvailable)
    /\ InLoop ~> (gpc = "done" /\ gitem # NoItem)

C9_Witness ==
    /\ gpc = "done"
    /\ glocals.fn = "angle_sum"
    /\ glocals.redrawn
    /\ gitem # NoItem

====
